---- MODULE Spec2Model ----
(***************************************************************************)
(* The advisory fetcher of pistachio-action: fetchAdvisories() walks the   *)
(* paginated GitHub advisories endpoint, backs off on rate limits, then    *)
(* transforms the accepted records and merges them into data/advisories    *)
(* .json.  Two variants of the script are in the repository:               *)
(*   "main"    src/fetch_advisories.js, lines 75-252                       *)
(*   "part000" src/unnamed/part_000                                        *)
(* They differ in the page ceiling and in the commit condition.            *)
(*                                                                         *)
(* Time is in seconds.  The clock `now` is read once per run: the model    *)
(* does not advance it for the sleeps inside a run (they are recorded in   *)
(* lastSleep), and the x-ratelimit-reset header is drawn relative to it.   *)
(***************************************************************************)
EXTENDS Integers, Sequences, FiniteSets, TLC

VARIABLES
    file,              \* content of DATA_FILE (data/advisories.json)
    now,               \* wall clock, seconds since the epoch
    runs,              \* invocations of the script started so far
    version,           \* which variant of the script this run executes
    pc,                \* "idle" | "request" (axios.get in flight) |
                       \* "sleeping" (a setTimeout pending) | "exited"
    page,              \* let page
    keepFetching,      \* let keepFetching
    oneYearAgo,        \* const oneYearAgo (the cutoff)
    allNewAdvisories,  \* let allNewAdvisories
    addedCount,        \* let addedCount
    exitCode,          \* -1 while running, 0 normal end, 1 process.exit(1)
    prevFile,          \* history: DATA_FILE as the run found it
    writes,            \* history: fs.writeFileSync calls of this run
    okPages,           \* history: the bodies of the 200 responses of this run
    lastStatus,        \* history: status of the last response (0: none yet)
    lastHeaders,       \* history: headers of the last error response
    lastSleep,         \* history: seconds of the sleep the script is in
    retried            \* history: a 429/403 was answered by a retry in this run

vars == <<file, now, runs, version, pc, page, keepFetching, oneYearAgo,
          allNewAdvisories, addedCount, exitCode, prevFile, writes, okPages,
          lastStatus, lastHeaders, lastSleep, retried>>

(***************************************************************************)
(* Bounds of the model and constants of the program.                       *)
(***************************************************************************)
MaxRuns == 2
MaxFetched == 3
MaxPageLen == 2
Now0 == 1700000000

MaxPage == 500
DefaultWait == 60
MaxWait == 3600
CourtesyPause == 1
OneYear == 365 * 24 * 3600

Versions == {"main", "part000"}

\* JavaScript's null and undefined, for string-valued fields.
Null == "<null>"
Undefined == "<undefined>"

\* The cutoff of the first run; publish times of the records are around it.
Cutoff1 == Now0 + 1 - OneYear

(***************************************************************************)
(* Records of the remote API.  An optional field is [def |-> FALSE] when   *)
(* the response leaves it out, [def |-> TRUE, val |-> v] otherwise.        *)
(***************************************************************************)
Absent == [def |-> FALSE]
Some(v) == [def |-> TRUE, val |-> v]

VulnA == [package |-> Some([name |-> "evil-pkg", ecosystem |-> "npm"]),
          vulnerable_version_range |-> ">= 0",
          first_patched_version |-> Null]

\* An entry whose vulnerable_version_range is missing.
VulnNoRange == [VulnA EXCEPT !.vulnerable_version_range = Undefined]

RawRecord(id, published, summary, vulns) ==
    [ghsa_id |-> id, published_at |-> published, summary |-> summary,
     severity |-> "critical", withdrawn_at |-> Null,
     vulnerabilities |-> vulns,
     identifiers |-> Some(<<[type |-> "GHSA", value |-> id]>>),
     cwes |-> Some(<<[cwe_id |-> "CWE-506", name |-> "malicious code"]>>),
     cvss |-> Absent]

\* Two records of the same advisory (the second as later edited) and another
\* advisory.  RawA2 is published exactly at the first run's cutoff, which
\* makes it one second older than the second run's; RawB is published exactly
\* at the second run's cutoff.
RawA1 == RawRecord("GHSA-1", Cutoff1 + 5, "first text", Some(<<VulnA>>))
RawA2 == RawRecord("GHSA-1", Cutoff1, "edited text", Absent)
RawB == RawRecord("GHSA-2", Cutoff1 + 1, "other", Some(<<VulnNoRange>>))
RawPool == {RawA1, RawA2, RawB}

SeqsUpTo(S, n) == UNION {[1..k -> S] : k \in 0..n}

\* The bodies a 200 response can carry.
PageBodies == SeqsUpTo(RawPool, MaxPageLen)

(***************************************************************************)
(* The transform, src/fetch_advisories.js 164-199.                         *)
(***************************************************************************)
HasVulns(advisory) ==
    advisory.vulnerabilities.def /\ Len(advisory.vulnerabilities.val) > 0

\* advisory.vulnerabilities[0].package.name raises a TypeError when the
\* first entry has no package.
TransformThrows(advisory) ==
    HasVulns(advisory) /\ ~advisory.vulnerabilities.val[1].package.def

\* VersionRanges that takes the range of the first entry only.
VersionRangesOfFirst(vulnerabilities) ==
    <<vulnerabilities[1].vulnerable_version_range>>

\* advisory.vulnerabilities.map(v => v.vulnerable_version_range)
VersionRanges(vulnerabilities) ==
    [i \in 1..Len(vulnerabilities) |->
        vulnerabilities[i].vulnerable_version_range]

\* advisory.identifiers.map(id => id.value)
IdentifierValues(identifiers) ==
    [i \in 1..Len(identifiers) |-> identifiers[i].value]

\* advisory.cwes.map(cwe => cwe.cwe_id)
CweIds(cwes) == [i \in 1..Len(cwes) |-> cwes[i].cwe_id]

Transform(advisory) ==
    LET first == advisory.vulnerabilities.val[1]
        packageName == IF HasVulns(advisory) THEN first.package.val.name
                       ELSE "unknown"
        ecosystem == IF HasVulns(advisory) THEN first.package.val.ecosystem
                     ELSE "npm"
        affectedVersionRanges ==
            IF HasVulns(advisory)
            THEN VersionRanges(advisory.vulnerabilities.val)
            ELSE <<>>
    IN  [id |-> <<"github", advisory.ghsa_id, ecosystem, packageName>>,
         source |-> "github",
         sourceId |-> advisory.ghsa_id,
         ecosystem |-> ecosystem,
         packageName |-> packageName,
         kind |-> "malware",
         severity |-> advisory.severity,
         summary |-> advisory.summary,
         affectedVersionRanges |-> affectedVersionRanges,
         firstPatchedVersion |->
             IF HasVulns(advisory) THEN first.first_patched_version ELSE Null,
         aliases |-> IF advisory.identifiers.def
                     THEN IdentifierValues(advisory.identifiers.val)
                     ELSE <<>>,
         cwes |-> IF advisory.cwes.def
                  THEN CweIds(advisory.cwes.val) ELSE <<>>,
         publishedAt |-> advisory.published_at,
         withdrawnAt |-> advisory.withdrawn_at,
         metadata |-> [cvssScore |-> IF advisory.cvss.def
                                     THEN advisory.cvss.val.score ELSE Null]]

\* allNewAdvisories.map(...): the records transformed in order.
TransformAll(list) == [i \in 1..Len(list) |-> Transform(list[i])]

AnyTransformThrows(list) == \E i \in 1..Len(list) : TransformThrows(list[i])

(***************************************************************************)
(* The rate-limit wait, src/fetch_advisories.js 148-151.  A header is      *)
(* [k |-> "undef"] when absent, [k |-> "num", n |-> i] when its text is    *)
(* the decimal integer i, and [k |-> "text"] when it is other text.        *)
(* A JavaScript number is [k |-> "num", n |-> i] or [k |-> "nan"].         *)
(***************************************************************************)
NoHeader == [k |-> "undef"]
NumHeader(i) == [k |-> "num", n |-> i]
TextHeader == [k |-> "text"]
NaN == [k |-> "nan"]
Num(i) == [k |-> "num", n |-> i]

\* Every header the model sends is a non-empty string, which is truthy.
Truthy(h) == h.k # "undef"

\* parseInt(h): NaN for undefined and for text that starts with no digit.
ParseInt(h) == IF h.k = "num" THEN Num(h.n) ELSE NaN

Minus(a, b) == IF a.k = "num" /\ b.k = "num" THEN Num(a.n - b.n) ELSE NaN

\* const retryAfter = h['retry-after'] || h['x-ratelimit-reset'] ? (...) : 60;
\* `||` binds tighter than `?:`, so the two headers together are the
\* condition and the value is always computed from x-ratelimit-reset.
RetryAfter(headers, nowSec) ==
    IF Truthy(headers.retryAfter) \/ Truthy(headers.rateLimitReset)
    THEN Minus(ParseInt(headers.rateLimitReset), Num(nowSec))
    ELSE Num(DefaultWait)

\* WaitTime without the test of line 151.
WaitTimeUnchecked(headers, nowSec) ==
    LET retryAfter == RetryAfter(headers, nowSec)
    IN  IF retryAfter.k = "num" THEN retryAfter.n ELSE DefaultWait

\* const waitTime = (retryAfter > 0 && retryAfter < 3600) ? retryAfter : 60;
WaitTime(headers, nowSec) ==
    LET retryAfter == RetryAfter(headers, nowSec)
    IN  IF retryAfter.k = "num" /\ retryAfter.n > 0 /\ retryAfter.n < MaxWait
        THEN retryAfter.n
        ELSE DefaultWait

\* The headers an error response can carry at clock reading t.
RetryAfterHeaders == {NoHeader, NumHeader(5)}
ResetHeaders(t) ==
    {NoHeader, TextHeader, NumHeader(t + 30), NumHeader(t - 10),
     NumHeader(t + 4000), NumHeader(t + MaxWait - 1), NumHeader(t + MaxWait)}
ErrorHeaders(t) ==
    [retryAfter : RetryAfterHeaders, rateLimitReset : ResetHeaders(t)]
NoHeaders == [retryAfter |-> NoHeader, rateLimitReset |-> NoHeader]

\* error.response.status === 429 || error.response.status === 403
IsRateLimit(status) == status = 429 \/ status = 403

\* Failures that are not rate limits: another HTTP status, or no response at
\* all (status 0: a transport failure, error.response undefined).
FatalStatuses == {0, 500}

(***************************************************************************)
(* The page scan, src/fetch_advisories.js 126-134.                         *)
(***************************************************************************)
\* The comparison with <= : a record published exactly at the cutoff stops
\* the fetch.
OlderOrEqual(advisory, cutoff) == advisory.published_at <= cutoff

\* publishedAt < oneYearAgo
OlderThan(advisory, cutoff) == advisory.published_at < cutoff

\* The index of the first record of data older than the cutoff, or
\* Len(data) + 1 when there is none.
RECURSIVE FirstOlder(_, _, _)
FirstOlder(data, cutoff, i) ==
    IF i > Len(data) THEN i
    ELSE IF OlderThan(data[i], cutoff) THEN i
    ELSE FirstOlder(data, cutoff, i + 1)

\* The records the for loop pushes: those before the first older one.
Accepted(data, cutoff) == SubSeq(data, 1, FirstOlder(data, cutoff, 1) - 1)

\* Whether the for loop ran into an older record (keepFetching = false).
HitCutoff(data, cutoff) == FirstOlder(data, cutoff, 1) <= Len(data)

(***************************************************************************)
(* DATA_FILE and JSON.  The file is absent or holds text; text is modelled *)
(* by what JSON.parse makes of it: "invalid" when it throws, else the      *)
(* parsed value (a bare array, null, or an object with or without an       *)
(* advisories member).                                                     *)
(***************************************************************************)
NoFile == [kind |-> "absent"]
TextFile(json) == [kind |-> "text", json |-> json]

Garbage == [t |-> "invalid", why |-> "garbage"]
Truncated == [t |-> "invalid", why |-> "truncated"]
JsonNull == [t |-> "null"]
JsonArray(items) == [t |-> "array", items |-> items]
SnapshotObject(generatedAt, advisories) ==
    [t |-> "object", schemaVersion |-> "1.0", generatedAt |-> generatedAt,
     advisories |-> Some(advisories)]
ObjectWithoutAdvisories ==
    [t |-> "object", schemaVersion |-> "1.0", generatedAt |-> Now0 - 100,
     advisories |-> Absent]

\* JSON.stringify(existingData, null, 2), as the value the text parses back
\* to: an undefined element of an array is written as null.  (An undefined
\* member of an object is left out, and reads back as undefined.)
NullIfUndefined(x) == IF x = Undefined THEN Null ELSE x
StringifyRecord(r) ==
    [r EXCEPT !.affectedVersionRanges =
                  [i \in 1..Len(@) |-> NullIfUndefined(@[i])]]
JSONstringify(existingData) ==
    [existingData EXCEPT
        !.advisories =
            Some([i \in 1..Len(@.val) |-> StringifyRecord(@.val[i])])]

\* The old version of the script wrote the raw API records as a bare array.
LegacyFile == TextFile(JsonArray(<<RawA1>>))

StoredOld ==
    Transform(RawRecord("GHSA-0", Cutoff1 - 1000, "stored", Some(<<VulnA>>)))

\* What can be at DATA_FILE before the first run.
StartFiles ==
    {NoFile, TextFile(Garbage), LegacyFile, TextFile(JsonNull),
     TextFile(ObjectWithoutAdvisories),
     TextFile(SnapshotObject(Now0 - 100, <<StoredOld>>))}

(***************************************************************************)
(* Load, merge and commit, src/fetch_advisories.js 205-244.                *)
(***************************************************************************)
Fresh(t) == SnapshotObject(t, <<>>)

\* Load without the catch of lines 219-222: the content that does not parse
\* is what the merge gets.
LoadWithoutCatch(f, t) ==
    IF f.kind = "absent" THEN Fresh(t)
    ELSE IF f.json.t = "array" THEN Fresh(t)
    ELSE f.json

\* let existingData = {...}; if (fs.existsSync(DATA_FILE)) { ... }
Load(f, t) ==
    IF f.kind = "absent" THEN Fresh(t)
    ELSE IF f.json.t = "invalid" THEN Fresh(t)
    ELSE IF f.json.t = "array" THEN Fresh(t)
    ELSE f.json

\* existingData.advisories.map(...) raises a TypeError when existingData is
\* null or has no advisories.
LoadThrows(existingData) ==
    existingData.t # "object" \/ ~existingData.advisories.def

SourceIds(advisories) == {advisories[i].sourceId : i \in 1..Len(advisories)}

\* Pushed without existingIds.add(advisory.sourceId): the keys of the records
\* appended in this run are not remembered.
PushedForgetsKey(existingIds, transformed, i) ==
    transformed[i].sourceId \notin existingIds

\* if (!existingIds.has(advisory.sourceId)) at the i-th iteration of the
\* loop: existingIds then holds the keys of the file and, by
\* existingIds.add, the keys of the records the loop has been through.
Pushed(existingIds, transformed, i) ==
    /\ transformed[i].sourceId \notin existingIds
    /\ \A j \in 1..(i - 1) :
           transformed[j].sourceId # transformed[i].sourceId

\* for (const advisory of transformedAdvisories) { if (...) { push ... } } :
\* the records that pass the test are appended in the order of the batch.
MergeLoop(advisories, existingIds, transformed) ==
    LET pushed == {i \in 1..Len(transformed) :
                      Pushed(existingIds, transformed, i)}
        nth(k) == CHOOSE i \in pushed :
                      Cardinality({j \in pushed : j < i}) = k - 1
    IN  advisories \o [k \in 1..Cardinality(pushed) |-> transformed[nth(k)]]

\* A merge that rebuilds the collection from the batch alone.
MergeDropsExisting(advisories, transformed) ==
    MergeLoop(<<>>, SourceIds(advisories), transformed)

Merge(advisories, transformed) ==
    MergeLoop(advisories, SourceIds(advisories), transformed)

\* The write without its condition.
AlwaysWrites(v, added, existingLen, transformedLen) == TRUE

\* The condition of the write: main line 238, part_000 line 191.
ShouldWrite(v, added, existingLen, transformedLen) ==
    IF v = "main" THEN added > 0
    ELSE added > 0 \/ existingLen # transformedLen

\* existingData.generatedAt at the write: main sets it inside the if (line
\* 239), part_000 before it (line 189).
GeneratedAt(v, added, loadedAt, t) ==
    IF v = "main" THEN (IF added > 0 THEN t ELSE loadedAt) ELSE t

\* fs.writeFileSync(DATA_FILE, text) opens the file truncating it, writes the
\* text and closes it.  It either completes, or fails part-way (disk full,
\* the process killed) leaving a prefix of the text in the file.
WriteOutcomes == {"ok", "fail"}
Written(text, outcome) ==
    IF outcome = "ok" THEN TextFile(text) ELSE TextFile(Truncated)

\* What the rest of the script, from the transform on, does with the fetched
\* list: the new file, addedCount, the number of writes and the exit code.
Finish(v, f, list, t, outcome) ==
    LET existingData == Load(f, t)
        transformed == TransformAll(list)
        merged == Merge(existingData.advisories.val, transformed)
        added == Len(merged) - Len(existingData.advisories.val)
        text == JSONstringify(
                    [existingData EXCEPT
                        !.generatedAt = GeneratedAt(v, added, @, t),
                        !.advisories = Some(merged)])
    IN  IF AnyTransformThrows(list) \/ LoadThrows(existingData)
        THEN [file |-> f, addedCount |-> 0, writes |-> 0, exitCode |-> 1]
        ELSE IF ShouldWrite(v, added, Len(merged), Len(transformed))
        THEN [file |-> Written(text, outcome), addedCount |-> added,
              writes |-> 1,
              exitCode |-> IF outcome = "ok" THEN 0 ELSE 1]
        ELSE [file |-> f, addedCount |-> added, writes |-> 0, exitCode |-> 0]

(***************************************************************************)
(* The state before the first run.  A checkout runs one variant of the     *)
(* script.                                                                 *)
(***************************************************************************)
Init ==
    /\ file \in StartFiles
    /\ version \in Versions
    /\ now = Now0
    /\ runs = 0
    /\ pc = "idle"
    /\ page = 1
    /\ keepFetching = TRUE
    /\ oneYearAgo = Now0 - OneYear
    /\ allNewAdvisories = <<>>
    /\ addedCount = 0
    /\ exitCode = -1
    /\ prevFile = file
    /\ writes = 0
    /\ okPages = <<>>
    /\ lastStatus = -1
    /\ lastHeaders = NoHeaders
    /\ lastSleep = 0
    /\ retried = FALSE

(***************************************************************************)
(* The script is started (lines 83-109): the cutoff is taken from the      *)
(* clock and the request for page 1 is sent.  A second passes between the  *)
(* end of a run and the start of the next.                                 *)
(***************************************************************************)
StartRun ==
    /\ pc \in {"idle", "exited"}
    /\ runs < MaxRuns
    /\ runs' = runs + 1
    /\ now' = now + 1
    /\ oneYearAgo' = now' - OneYear
    /\ allNewAdvisories' = <<>>
    /\ page' = 1
    /\ keepFetching' = TRUE
    /\ pc' = "request"
    /\ addedCount' = 0
    /\ exitCode' = -1
    /\ prevFile' = file
    /\ writes' = 0
    /\ okPages' = <<>>
    /\ lastStatus' = -1
    /\ lastHeaders' = NoHeaders
    /\ lastSleep' = 0
    /\ retried' = FALSE
    /\ UNCHANGED <<file, version>>

\* Continues without the ceiling of lines 138-140.
ContinuesWithoutCeiling(v, nextPage) == TRUE

\* if (keepFetching) { page++; if (page > 500) ... } : whether the loop goes
\* on to another request after a page that hit no older record.  part_000
\* has no ceiling.
Continues(v, nextPage) == IF v = "main" THEN nextPage <= MaxPage ELSE TRUE

\* GoesOn without the test of lines 121-124 for an empty page.
GoesOnIgnoresEmpty(v, data, cutoff, nextPage) ==
    /\ ~HitCutoff(data, cutoff)
    /\ Continues(v, nextPage)

\* GoesOn without the effect of keepFetching = false at line 131.
GoesOnIgnoresCutoff(v, data, cutoff, nextPage) ==
    /\ Len(data) # 0
    /\ Continues(v, nextPage)

\* Whether the loop goes on after the 200 response carrying data.
GoesOn(v, data, cutoff, nextPage) ==
    /\ Len(data) # 0
    /\ ~HitCutoff(data, cutoff)
    /\ Continues(v, nextPage)

\* The outcomes of the write of a run that ends with list fetched: a run that
\* does not write has one.
OutcomesOf(v, f, list, t) ==
    IF Finish(v, f, list, t, "ok").writes = 0 THEN {"ok"} ELSE WriteOutcomes

(***************************************************************************)
(* A 200 response for the requested page (lines 119-144).  When the loop   *)
(* goes on, the script sleeps the courtesy pause; when the loop ends, the  *)
(* rest of the script (lines 162-244) runs in the same step.               *)
(***************************************************************************)
HandlePage(data) ==
    /\ pc = "request"
    /\ lastStatus' = 200
    /\ lastHeaders' = NoHeaders
    /\ okPages' = Append(okPages, data)
    /\ allNewAdvisories' = allNewAdvisories \o Accepted(data, oneYearAgo)
    /\ page' = IF Len(data) # 0 /\ ~HitCutoff(data, oneYearAgo)
               THEN page + 1 ELSE page
    /\ keepFetching' =
           (Len(data) = 0 \/ GoesOn(version, data, oneYearAgo, page + 1))
    /\ IF GoesOn(version, data, oneYearAgo, page + 1)
       THEN /\ lastSleep' = CourtesyPause
            /\ pc' = "sleeping"
            /\ UNCHANGED <<file, addedCount, writes, exitCode>>
       ELSE \E outcome \in OutcomesOf(version, file, allNewAdvisories', now) :
              LET end == Finish(version, file, allNewAdvisories', now, outcome)
              IN  /\ lastSleep' = 0
                  /\ pc' = "exited"
                  /\ file' = end.file
                  /\ addedCount' = end.addedCount
                  /\ writes' = end.writes
                  /\ exitCode' = end.exitCode
    /\ UNCHANGED <<now, runs, version, oneYearAgo, prevFile, retried>>

\* A 200 response of a server that holds at most MaxFetched records.
PageOk(data) ==
    /\ Len(allNewAdvisories) + Len(data) <= MaxFetched
    /\ HandlePage(data)

(***************************************************************************)
(* A 429 or 403 response (lines 146-155): the script sleeps waitTime       *)
(* seconds, and `continue` then requests the same page again.              *)
(***************************************************************************)
RateLimited(status, headers) ==
    /\ pc = "request"
    /\ IsRateLimit(status)
    /\ lastStatus' = status
    /\ lastHeaders' = headers
    /\ lastSleep' = WaitTime(headers, now)
    /\ pc' = "sleeping"
    /\ retried' = TRUE
    /\ UNCHANGED <<file, now, runs, version, page, keepFetching,
                   oneYearAgo, allNewAdvisories, addedCount, exitCode,
                   prevFile, writes, okPages>>

\* A wake-up that moves on to the next page.
WakeSkipsPage ==
    /\ pc = "sleeping"
    /\ pc' = "request"
    /\ page' = page + 1
    /\ lastStatus' = -1
    /\ lastHeaders' = NoHeaders
    /\ lastSleep' = 0
    /\ UNCHANGED <<file, now, runs, version, keepFetching,
                   oneYearAgo, allNewAdvisories, addedCount, exitCode,
                   prevFile, writes, okPages, retried>>

(***************************************************************************)
(* The timer of a sleep fires (lines 142, 154): the loop condition holds   *)
(* and the request for `page` is sent.                                     *)
(***************************************************************************)
Wake ==
    /\ pc = "sleeping"
    /\ pc' = "request"
    /\ lastStatus' = -1
    /\ lastHeaders' = NoHeaders
    /\ lastSleep' = 0
    /\ UNCHANGED <<file, now, runs, version, page, keepFetching,
                   oneYearAgo, allNewAdvisories, addedCount, exitCode,
                   prevFile, writes, okPages, retried>>

(***************************************************************************)
(* Any other failure of the request (lines 156-158, 246-249): the error is *)
(* rethrown, logged by the outer catch, and the process exits with 1.      *)
(***************************************************************************)
FatalError(status) ==
    /\ pc = "request"
    /\ ~IsRateLimit(status)
    /\ lastStatus' = status
    /\ lastHeaders' = NoHeaders
    /\ lastSleep' = 0
    /\ pc' = "exited"
    /\ exitCode' = 1
    /\ UNCHANGED <<file, now, runs, version, page, keepFetching, oneYearAgo,
                   allNewAdvisories, addedCount, prevFile, writes, okPages,
                   retried>>

Next ==
    \/ StartRun
    \/ \E data \in PageBodies : PageOk(data)
    \/ \E status \in {429, 403}, headers \in ErrorHeaders(now) :
           RateLimited(status, headers)
    \/ Wake
    \/ \E status \in FatalStatuses : FatalError(status)

Spec == Init /\ [][Next]_vars

(***************************************************************************)
(* A server with many pages.  Its data is a number of pages, each holding  *)
(* the same record; the pages after the data are empty, and the last page  *)
(* of the data may hold a record older than the cutoff behind the other.   *)
(* The server holds PageCap pages at most, one more than the ceiling of    *)
(* the script, and the run starts without a file.  One run is followed.    *)
(***************************************************************************)
PageCap == MaxPage + 1
RawOlder == RawRecord("GHSA-9", Cutoff1 - 1, "older", Absent)
FullPage == <<RawA1>>
LastPage == <<RawA1, RawOlder>>
LongBodies == {<<>>, FullPage, LastPage}

\* The numbers of pages the data of the server can have.
LongSizes == {0, 1, 2, MaxPage - 1, MaxPage, PageCap}

\* Whether the server can answer the request for page p with data.
Serves(p, data) ==
    /\ data = <<>> => (p - 1) \in LongSizes
    /\ data = LastPage => p \in LongSizes
    /\ data = FullPage => p <= PageCap

InitNoFile == Init /\ file = NoFile

FirstRun == runs = 0 /\ StartRun

PageOkLong(data) ==
    /\ Serves(page, data)
    /\ HandlePage(data)

RateLimitedLong == RateLimited(429, NoHeaders)

NextLong ==
    \/ FirstRun
    \/ \E data \in LongBodies : PageOkLong(data)
    \/ RateLimitedLong
    \/ Wake
    \/ \E status \in FatalStatuses : FatalError(status)

SpecLong == InitNoFile /\ [][NextLong]_vars

\* The answer to the request that is in flight: `await axios.get` resumes.
Answered ==
    \/ RateLimitedLong
    \/ \E status \in FatalStatuses : FatalError(status)
    \/ \E data \in LongBodies : PageOkLong(data)

\* Every request is answered, by whichever answer, and every timer set by
\* setTimeout (lines 142 and 154) fires.
SpecLongFair == SpecLong /\ WF_vars(Answered) /\ WF_vars(Wake)

(***************************************************************************)
(* A server whose records leave optional fields out.  One run that starts  *)
(* without a file is followed.                                             *)
(***************************************************************************)
VulnB == [package |-> Some([name |-> "other-pkg", ecosystem |-> "pip"]),
          vulnerable_version_range |-> "< 2.0",
          first_patched_version |-> "2.0"]

\* Entries without package and without first_patched_version.
VulnNoPackage == [VulnA EXCEPT !.package = Absent]
VulnNoPatched == [VulnB EXCEPT !.first_patched_version = Undefined]

\* vulnerabilities: [] ; two entries; a first entry without package; and a
\* record without identifiers, cwes, cvss and withdrawn_at whose entry has no
\* first_patched_version.
RawEmptyVulns == RawRecord("GHSA-3", Cutoff1 + 5, "empty list", Some(<<>>))
RawTwoVulns ==
    RawRecord("GHSA-4", Cutoff1 + 5, "two entries", Some(<<VulnB, VulnA>>))
RawNoPackage ==
    RawRecord("GHSA-5", Cutoff1 + 5, "no package", Some(<<VulnNoPackage>>))
RawBare ==
    [RawRecord("GHSA-6", Cutoff1 + 5, "bare", Some(<<VulnNoPatched>>))
        EXCEPT !.identifiers = Absent, !.cwes = Absent,
               !.withdrawn_at = Undefined]
WidePool == {RawA2, RawEmptyVulns, RawTwoVulns, RawNoPackage, RawBare}
WideBodies == SeqsUpTo(WidePool, MaxPageLen)

NextWide ==
    \/ FirstRun
    \/ \E data \in WideBodies : PageOk(data)
    \/ RateLimitedLong
    \/ Wake
    \/ \E status \in FatalStatuses : FatalError(status)

SpecWide == InitNoFile /\ [][NextWide]_vars

(***************************************************************************)
(* Properties.                                                             *)
(***************************************************************************)
\* The run has ended after its merge-and-commit step ran (the fetch loop
\* ended on a 200 response).
MergeRan == pc = "exited" /\ lastStatus = 200

\* f holds a versioned snapshot object with an advisories collection.
IsSnapshot(f) ==
    f.kind = "text" /\ f.json.t = "object" /\ f.json.advisories.def

Records(f) == f.json.advisories.val

\* C1: merge idempotence across runs.  After a run that exited with 0,
\* running the merge-and-commit step again one second later with the same
\* fetched batch (its write succeeding, if it writes) leaves DATA_FILE as the
\* first run left it: same records, same order, same generatedAt.
C1_SecondRunLeavesSnapshot ==
    (MergeRan /\ exitCode = 0)
        => Finish(version, file, allNewAdvisories, now + 1, "ok").file = file

\* C2: identity-key uniqueness.  Whenever DATA_FILE holds a snapshot, no two
\* of its records share a sourceId.
C2_SourceIdsUnique ==
    IsSnapshot(file)
        => \A i, j \in 1..Len(Records(file)) :
               Records(file)[i].sourceId = Records(file)[j].sourceId => i = j

\* A second run has written a snapshot from a batch in which GHSA-1 occurs
\* twice and was already stored by the first run, and GHSA-2 is new.
C2_Witness ==
    /\ MergeRan /\ exitCode = 0 /\ runs = 2 /\ writes = 1
    /\ allNewAdvisories = <<RawA1, RawA1, RawB>>
    /\ IsSnapshot(prevFile)
    /\ "GHSA-1" \in SourceIds(Records(prevFile))
    /\ Len(Records(file)) = Len(Records(prevFile)) + 1

\* C3: no-op write suppression.  A run whose merge added no record leaves
\* DATA_FILE exactly as it found it.
C3_NoAdditionNoRewrite ==
    (MergeRan /\ addedCount = 0) => file = prevFile

\* The wait as claimed: retry-after if present, else x-ratelimit-reset minus
\* the clock, else 60 seconds.
ClaimedWait(headers, t) ==
    IF headers.retryAfter.k = "num" THEN headers.retryAfter.n
    ELSE IF headers.rateLimitReset.k = "num" THEN headers.rateLimitReset.n - t
    ELSE DefaultWait

\* C4: rate-limit wait selection.  After a 429/403 the script sleeps the
\* claimed wait: retry-after if present, whatever x-ratelimit-reset says,
\* else x-ratelimit-reset minus the clock, else 60 seconds (stated for the
\* cases in which that value lies strictly between 0 and 3600).
C4_WaitPrefersRetryAfter ==
    (/\ pc = "sleeping" /\ IsRateLimit(lastStatus)
     /\ lastHeaders.rateLimitReset.k # "text"
     /\ ClaimedWait(lastHeaders, now) > 0
     /\ ClaimedWait(lastHeaders, now) < MaxWait)
        => lastSleep = ClaimedWait(lastHeaders, now)

\* What the fetch loop collects from the 200 responses alone, that is, in the
\* same run without any 429/403.
RECURSIVE FailureFreeList(_, _, _)
FailureFreeList(pages, cutoff, i) ==
    IF i > Len(pages) \/ Len(pages[i]) = 0 THEN <<>>
    ELSE IF HitCutoff(pages[i], cutoff) THEN Accepted(pages[i], cutoff)
    ELSE pages[i] \o FailureFreeList(pages, cutoff, i + 1)

\* C5: a rate-limit retry loses no progress.  A 429/403 leaves page and the
\* accumulated list as they are and puts the script to sleep; the wake-up
\* requests the same page with the same list; and at every point the list is
\* the one the 200 responses alone produce.
C5_RetryKeepsProgress ==
    /\ [](allNewAdvisories = FailureFreeList(okPages, oneYearAgo, 1))
    /\ [][(pc = "request" /\ IsRateLimit(lastStatus'))
            => /\ pc' = "sleeping"
               /\ page' = page
               /\ allNewAdvisories' = allNewAdvisories
               /\ file' = file]_vars
    /\ [][pc = "sleeping"
            => /\ pc' = "request"
               /\ page' = page
               /\ allNewAdvisories' = allNewAdvisories
               /\ file' = file]_vars

\* A run that was rate limited on the way ended normally with three records
\* from two pages or more.
C5_Witness ==
    /\ MergeRan /\ exitCode = 0 /\ retried
    /\ Len(allNewAdvisories) = 3 /\ Len(okPages) >= 2

RECURSIVE Flatten(_, _)
Flatten(pages, i) ==
    IF i > Len(pages) THEN <<>> ELSE pages[i] \o Flatten(pages, i + 1)

\* C6: cutoff boundary.  The accepted list is a prefix of the records
\* received, each published at or after the cutoff; if a received record was
\* left out, the first one left out is strictly older than the cutoff and the
\* fetch has stopped.
C6_CutoffBoundary ==
    LET received == Flatten(okPages, 1)
        n == Len(allNewAdvisories)
    IN  /\ n <= Len(received)
        /\ allNewAdvisories = SubSeq(received, 1, n)
        /\ \A i \in 1..n : received[i].published_at >= oneYearAgo
        /\ n < Len(received)
             => /\ received[n + 1].published_at < oneYearAgo
                /\ pc = "exited"
                /\ ~keepFetching

\* The second run got a page whose first record is published exactly at the
\* cutoff and whose second is one second older: it kept the first only.
C6_Witness ==
    /\ pc = "exited" /\ runs = 2
    /\ okPages = <<(<<RawB, RawA2>>)>>
    /\ RawB.published_at = oneYearAgo
    /\ RawA2.published_at = oneYearAgo - 1
    /\ allNewAdvisories = <<RawB>>

\* C7: fatal errors never persist anything.  A failure other than 429/403
\* ends the run at once with exit code 1 and DATA_FILE untouched; a run
\* writes at most once, after the fetch loop, and (in fetch_advisories.js)
\* only when a record was added; a run ends with 0 unless an error was
\* raised.
C7_FatalNeverPersists ==
    /\ lastStatus \in FatalStatuses
         => pc = "exited" /\ exitCode = 1 /\ writes = 0 /\ file = prevFile
    /\ writes <= 1
    /\ file # prevFile => writes = 1
    /\ writes = 1 => MergeRan /\ (version = "main" => addedCount > 0)
    /\ pc = "exited" => exitCode \in {0, 1}
    /\ (pc = "exited" /\ exitCode = 1)
         => \/ lastStatus \in FatalStatuses
            \/ AnyTransformThrows(allNewAdvisories)
            \/ LoadThrows(Load(prevFile, now))
            \/ (writes = 1 /\ file = TextFile(Truncated))

\* fetch_advisories.js got a 500 for page 2, after a first page was accepted.
C7_Witness ==
    /\ version = "main" /\ lastStatus = 500 /\ page = 2
    /\ Len(allNewAdvisories) > 0 /\ exitCode = 1 /\ IsSnapshot(file)

\* The records of transformed whose sourceId is not in ids and does not occur
\* earlier in transformed, in their order.
RECURSIVE FirstOccurrences(_, _, _)
FirstOccurrences(ids, transformed, i) ==
    IF i > Len(transformed) THEN <<>>
    ELSE IF /\ transformed[i].sourceId \notin ids
            /\ \A j \in 1..(i - 1) :
                   transformed[j].sourceId # transformed[i].sourceId
         THEN <<transformed[i]>> \o FirstOccurrences(ids, transformed, i + 1)
         ELSE FirstOccurrences(ids, transformed, i + 1)

\* The new records of the batch fetched, as they are written to the file.
NewRecords(ids) ==
    LET new == FirstOccurrences(ids, TransformAll(allNewAdvisories), 1)
    IN  [i \in 1..Len(new) |-> StringifyRecord(new[i])]

\* C8: append-only merge.  After a run that found a versioned snapshot and
\* ended normally, the snapshot's records are the records found, unchanged
\* and in their order, followed by the new records of the batch in the order
\* of their first occurrence; addedCount is the number of those.
C8_AppendOnly ==
    (MergeRan /\ exitCode = 0 /\ IsSnapshot(prevFile))
        => /\ IsSnapshot(file)
           /\ Records(file) =
                  Records(prevFile) \o NewRecords(SourceIds(Records(prevFile)))
           /\ addedCount = Len(Records(file)) - Len(Records(prevFile))

\* The first run found a snapshot and fetched GHSA-2, GHSA-1 and GHSA-1
\* again: it appended GHSA-2 and the first GHSA-1, in that order.
C8_Witness ==
    /\ MergeRan /\ exitCode = 0 /\ runs = 1 /\ IsSnapshot(prevFile)
    /\ Len(Records(prevFile)) = 1
    /\ allNewAdvisories = <<RawB, RawA1, RawA2>>
    /\ Len(Records(file)) = 3
    /\ Records(file)[2].sourceId = "GHSA-2"
    /\ Records(file)[3].summary = "first text"

\* C9: legacy-format tolerance, as claimed for every fetched batch.  A run
\* that found a bare list ends with exit code 0 and leaves a versioned
\* snapshot holding exactly the new records of the batch (a failed write
\* aside).
C9_LegacyBecomesSnapshot ==
    (MergeRan /\ prevFile = LegacyFile /\ ~(writes = 1 /\ exitCode = 1))
        => /\ exitCode = 0
           /\ IsSnapshot(file)
           /\ Records(file) = NewRecords({})

\* C10: all-or-nothing write.  After a run that called writeFileSync the
\* file is the previous one or a complete snapshot.
C10_WriteAllOrNothing ==
    (pc = "exited" /\ writes = 1) => (file = prevFile \/ IsSnapshot(file))

\* C11: no page beyond the ceiling is ever requested or waited for, and the
\* run that has fully accepted page 500 ends there, on that response, with
\* every record it accepted still in its list.
C11_PageCeiling ==
    /\ pc \in {"request", "sleeping"} => page <= MaxPage
    /\ (lastStatus = 200 /\ page > MaxPage) =>
           /\ pc = "exited"
           /\ page = MaxPage + 1
           /\ Len(okPages) = MaxPage
           /\ Len(allNewAdvisories) >= MaxPage

\* C12: a 200 response with an empty page ends the fetch loop on that
\* response: the run is over without another request or pause, the page
\* number is still the one of the empty page, and the list is the records of
\* the pages before it, in the order they were received.
C12_EmptyPageStops ==
    (okPages # <<>> /\ okPages[Len(okPages)] = <<>>) =>
        /\ pc = "exited"
        /\ lastStatus = 200
        /\ lastSleep = 0
        /\ page = Len(okPages)
        /\ allNewAdvisories = Flatten(SubSeq(okPages, 1, Len(okPages) - 1), 1)

\* The empty page came after two pages whose records were accepted.
C12_Witness ==
    /\ Len(okPages) = 3
    /\ okPages[3] = <<>>
    /\ Len(allNewAdvisories) >= 2
    /\ pc = "exited"

\* The file found at the start of the run does not parse.
FoundCorrupt == prevFile.kind = "text" /\ prevFile.json.t = "invalid"

\* C13: corrupt-file recovery.  A run that found a file that does not parse
\* and got through its fetch is not aborted over it (it fails only if its
\* own write fails); it merges the batch into an empty snapshot: every
\* record of the batch, once per key, counts as added, and the file it
\* writes is a versioned snapshot of exactly those records.
C13_CorruptFileRecovers ==
    (MergeRan /\ FoundCorrupt) =>
        /\ exitCode = 1 => writes = 1
        /\ addedCount = Len(NewRecords({}))
        /\ addedCount > 0 => writes = 1
        /\ (exitCode = 0 /\ writes = 1) =>
               /\ IsSnapshot(file)
               /\ file.json.schemaVersion = "1.0"
               /\ file.json.generatedAt = now
               /\ Records(file) = NewRecords({})
        /\ writes = 0 => (exitCode = 0 /\ file = prevFile)

\* The run found garbage in the file and wrote a snapshot of the two
\* advisories it fetched.
C13_Witness ==
    /\ MergeRan
    /\ prevFile = TextFile(Garbage)
    /\ exitCode = 0
    /\ addedCount = 2
    /\ IsSnapshot(file)

\* C14: transform defaults.  A fetched record without vulnerability entries
\* (the field absent or an empty list) is normalized, without an error, to
\* package "unknown", ecosystem "npm", no affected version ranges and a null
\* first patched version, and is stored so; a record with entries gets one
\* range per entry in the order of the entries, and the package name, the
\* ecosystem and the first patched version of its first entry.
C14_TransformDefaults ==
    /\ \A i \in 1..Len(allNewAdvisories) :
           LET advisory == allNewAdvisories[i]
               entries == advisory.vulnerabilities.val
               normalized == Transform(advisory)
           IN  /\ ~HasVulns(advisory) =>
                      /\ ~TransformThrows(advisory)
                      /\ normalized.packageName = "unknown"
                      /\ normalized.ecosystem = "npm"
                      /\ normalized.affectedVersionRanges = <<>>
                      /\ normalized.firstPatchedVersion = Null
                      /\ normalized.id =
                             <<"github", advisory.ghsa_id, "npm", "unknown">>
               /\ (HasVulns(advisory) /\ entries[1].package.def) =>
                      /\ Len(normalized.affectedVersionRanges) = Len(entries)
                      /\ \A k \in 1..Len(entries) :
                             normalized.affectedVersionRanges[k] =
                                 entries[k].vulnerable_version_range
                      /\ normalized.packageName = entries[1].package.val.name
                      /\ normalized.ecosystem =
                             entries[1].package.val.ecosystem
                      /\ normalized.firstPatchedVersion =
                             entries[1].first_patched_version
    /\ (MergeRan /\ \A i \in 1..Len(allNewAdvisories) :
                        ~HasVulns(allNewAdvisories[i])) =>
           /\ exitCode = 1 => writes = 1
           /\ (exitCode = 0 /\ writes = 1) =>
                  \A k \in 1..Len(Records(file)) :
                      /\ Records(file)[k].packageName = "unknown"
                      /\ Records(file)[k].ecosystem = "npm"
                      /\ Records(file)[k].affectedVersionRanges = <<>>
                      /\ Records(file)[k].firstPatchedVersion = Null

\* The run fetched a record with an empty list of entries, one without the
\* field and one with two entries, and stored the three.
C14_Witness ==
    /\ MergeRan
    /\ exitCode = 0
    /\ allNewAdvisories = <<RawEmptyVulns, RawA2, RawTwoVulns>>
    /\ Len(Records(file)) = 3
    /\ Records(file)[1].packageName = "unknown"
    /\ Records(file)[3].affectedVersionRanges = <<"< 2.0", ">= 0">>

\* C15: after a run that exits with code 0 the file, if there is one, holds
\* a versioned snapshot object with schemaVersion, generatedAt and an
\* advisories collection: neither content that does not parse nor a bare
\* list is left behind.
C15_SuccessLeavesSnapshot ==
    (pc = "exited" /\ exitCode = 0 /\ file.kind = "text") =>
        /\ IsSnapshot(file)
        /\ file.json.schemaVersion = "1.0"

\* C16: the sleep after a 429 or 403 response is at least 1 second and at
\* most 3600 seconds, whatever the headers of the response and the clock.
C16_WaitBounded ==
    (pc = "sleeping" /\ IsRateLimit(lastStatus)) =>
        (lastSleep >= 1 /\ lastSleep <= MaxWait)

\* A 429 response whose reset time is more than an hour away: the script
\* sleeps the default wait.
C16_Witness ==
    /\ pc = "sleeping"
    /\ lastStatus = 429
    /\ lastHeaders.rateLimitReset = NumHeader(now + 4000)
    /\ lastSleep = DefaultWait

\* A step that is not the answer 429 or 403 to a request.
NotRateLimited == ~(pc = "request" /\ IsRateLimit(lastStatus'))

\* C17: termination.  When every request is answered and every timer fires,
\* a run that gets only finitely many 429 or 403 answers exits, and it never
\* gets more than 500 answers with status 200.  There is no cap on retries:
\* whenever a request is in flight a 429 answer is possible, it puts the run
\* to sleep without a change of page, list, file, number of writes or exit
\* code, and the wake-up puts the same request in flight again.
C17_Termination ==
    /\ [](version = "main" => Len(okPages) <= MaxPage)
    /\ (<>[][NotRateLimited]_vars) =>
           []((version = "main" /\ pc = "request") => <>(pc = "exited"))
    /\ [](pc = "request" => ENABLED RateLimitedLong)
    /\ [][RateLimitedLong =>
             /\ pc' = "sleeping"
             /\ UNCHANGED <<page, allNewAdvisories, okPages, file, writes,
                            exitCode>>]_vars
    /\ [][(Wake /\ IsRateLimit(lastStatus)) =>
             /\ pc' = "request"
             /\ UNCHANGED <<page, allNewAdvisories, okPages, file, writes,
                            exitCode>>]_vars

\* The run ended at the ceiling: 500 answers with status 200, and a retry on
\* the way.
C17_Witness ==
    /\ version = "main"
    /\ pc = "exited"
    /\ Len(okPages) = MaxPage
    /\ page = MaxPage + 1
    /\ retried
    /\ exitCode = 0

\* The step is a 200 answer, and the page it carries.
Got200 == pc = "request" /\ lastStatus' = 200
GotPage == okPages'[Len(okPages')]

\* C18: sequential paging with a courtesy pause.  A run requests page 1
\* first; within a run the page number never decreases and grows by one step
\* of 1 at a time, only on a 200 answer with a non-empty page all of whose
\* records were accepted.  After such an answer, unless the ceiling is
\* reached, the script sleeps 1 second once and then requests the next page;
\* after the answer on which the fetch stops (an empty page, a record older
\* than the cutoff, page 500 accepted) there is no pause and no request.
C18_SequentialPaging ==
    /\ [][(pc \in {"idle", "exited"} /\ pc' = "request") => page' = 1]_vars
    /\ [][(pc = "request" \/ pc = "sleeping") =>
             (page' = page \/ (page' = page + 1 /\ Got200))]_vars
    /\ [][Got200 =>
             /\ page' = page + 1 <=>
                    /\ Len(GotPage) # 0
                    /\ allNewAdvisories' = allNewAdvisories \o GotPage
             /\ IF page' = page + 1 /\ (version = "main" => page' <= MaxPage)
                THEN pc' = "sleeping" /\ lastSleep' = CourtesyPause
                ELSE pc' = "exited" /\ lastSleep' = 0]_vars
    /\ [][(pc = "sleeping" /\ lastStatus = 200) =>
             /\ lastSleep = CourtesyPause
             /\ pc' = "request"
             /\ page' = page]_vars

\* The run stopped at the ceiling without a pause, and without a retry on
\* the way.
C18_Witness ==
    /\ version = "main"
    /\ pc = "exited"
    /\ lastStatus = 200
    /\ page = MaxPage + 1
    /\ lastSleep = 0
    /\ ~retried

\* The file found at the start of the run parses, to a value that is neither
\* a list nor an object with an advisories collection.
FoundWrongShape ==
    /\ prevFile.kind = "text"
    /\ prevFile.json.t \notin {"invalid", "array"}
    /\ ~IsSnapshot(prevFile)

\* C19: a run that found a file of the wrong shape and got through its
\* fetch does not end with a non-zero exit code over it (it fails only if
\* its own write fails): it counts the records of the batch, once per key,
\* as added, as it does after content that does not parse.
C19_WrongShapeRecovers ==
    (MergeRan /\ FoundWrongShape) =>
        /\ exitCode = 1 => writes = 1
        /\ addedCount = Len(NewRecords({}))

\* C20: the transform does not fail on a record that leaves optional fields
\* out: a run that started without a file and got through its fetch ends
\* with a non-zero exit code only if its write fails, and otherwise stores
\* one record for every key fetched.
C20_TransformNeverFails ==
    (MergeRan /\ prevFile = NoFile) =>
        /\ exitCode = 1 => writes = 1
        /\ exitCode = 0 =>
               addedCount =
                   Cardinality({allNewAdvisories[i].ghsa_id :
                                   i \in 1..Len(allNewAdvisories)})

====
